---------------------------- MODULE Spec2Model ----------------------------
(***************************************************************************)
(* Prerequisite graph analysis engine (analysis_engine.py, topic_graph.py, *)
(* logic.py).                                                              *)
(*                                                                         *)
(* analyze_catalog(json_path, config) reads the catalog source twice: once *)
(* in load_catalog (normalised records, the set of declared ids) and once  *)
(* in the graph builder of topic_graph.py (the graph), then runs the five  *)
(* checks over the graph and sorts the issues into the Report.             *)
(*                                                                         *)
(* analysis_engine.py calls the graph builder of topic_graph.py under the  *)
(* name build_course_graph; the function topic_graph.py defines is         *)
(* load_course_graph, and the model takes the two to be the same function. *)
(*                                                                         *)
(* get_prereq_chain(graph, topic_id) of logic.py is modelled activation by *)
(* activation (SpecChain), on the graph the builder makes of a catalog.    *)
(*                                                                         *)
(* Course ids are modelled as the naturals 1..n, standing for id strings   *)
(* whose lexicographic order is the numeric order; an id string is one     *)
(* character, so that iterating a string yields ids.  The human-readable   *)
(* message of an Issue and the timestamp of a Report are left out.         *)
(***************************************************************************)
EXTENDS Integers, Sequences, FiniteSets, TLC

(***************************************************************************)
(* Bounds of the model.                                                    *)
(***************************************************************************)
NumIds == 3        \* ids the free-form record of a catalog may use
MaxPrereqs == 2    \* entries of its prerequisites list
MaxStrLen == 1     \* characters of its prerequisites value when that is a string
MaxChain == 9      \* courses of the chain of a catalog
MaxPermuted == 2   \* courses of the chain when every course is a bottleneck candidate
MaxEdges == 4      \* edges of a graph that get_prereq_chain is called on
MaxCatalogs == 1   \* catalogs the service stores
MaxTasks == 1      \* analyses the service is asked for

Ids == 1..NumIds

(***************************************************************************)
(* Raw JSON values.  A record is a JSON object with optional fields id,    *)
(* name and prerequisites.                                                 *)
(***************************************************************************)
NoId == 0                  \* the record has no "id" key
NoName == "<no name>"      \* the record has no "name" key
Unknown == "Unknown"       \* placeholder of load_catalog
Names == {"Course"}

RECURSIVE SeqsUpTo(_, _)
SeqsUpTo(S, n) ==
    IF n = 0 THEN {<<>>}
    ELSE LET shorter == SeqsUpTo(S, n - 1)
         IN  shorter \cup {Append(s, x) : s \in shorter, x \in S}

Range(s) == {s[i] : i \in DOMAIN s}

\* the value under the key "prerequisites": the key is absent, or the value
\* is null, a list of ids, or a string (whose characters are ids)
PrereqValues(S) ==
    {[kind |-> "absent", items |-> <<>>], [kind |-> "null", items |-> <<>>]}
    \cup {[kind |-> "list", items |-> s] : s \in SeqsUpTo(S, MaxPrereqs)}
    \cup {[kind |-> "str", items |-> s] : s \in SeqsUpTo(S, MaxStrLen)}

RawRecords ==
    [id : Ids \cup {NoId}, name : Names \cup {NoName}, prerequisites : PrereqValues(Ids)]

WellFormed(r) ==
    r.id # NoId /\ r.name # NoName /\ r.prerequisites.kind = "list"

\* the catalog source: a file that may not exist, whose top-level JSON value
\* may be something else than a list
TopKinds == {"list", "object", "string", "number", "null"}

Source(exists, top, records) ==
    [exists |-> exists, top |-> top, records |-> records]

\* a chain of n courses: course 1 has no prerequisite, course i requires
\* course i - 1; the records are listed from course 1 on, or from course n on
ChainRecord(i) ==
    [id |-> i, name |-> "Course",
     prerequisites |-> [kind |-> "list", items |-> IF i = 1 THEN <<>> ELSE <<i - 1>>]]

Listings == {"forward", "backward"}

ChainRecords(n, listing) ==
    [i \in 1..n |-> ChainRecord(IF listing = "forward" THEN i ELSE n + 1 - i)]

(***************************************************************************)
(* Configuration: a dict from option names to integers.                    *)
(***************************************************************************)
EmptyDict == [k \in {} |-> 0]

Get(d, k, default) == IF k \in DOMAIN d THEN d[k] ELSE default

DefaultTopBottlenecks == 5
DefaultMinBottleneck == 3
LongChainThreshold == 6
LongChainMedium == 8

Configs ==
    {EmptyDict,
     [top_bottlenecks |-> 1, min_bottleneck |-> 2],
     [long_chain_warn |-> 2],
     [long_chain_warn |-> 8]}

\* thresholds every course reaches, or every course that is required
WideConfigs ==
    {[min_bottleneck |-> 0],
     [top_bottlenecks |-> 1, min_bottleneck |-> 1]}

(***************************************************************************)
(* load_catalog                                                            *)
(***************************************************************************)
NormalizeItem(item) ==
    [id |-> item.id,
     name |-> IF item.name = NoName THEN Unknown ELSE item.name,
     prerequisites |-> IF item.prerequisites.kind = "list"
                       THEN item.prerequisites.items ELSE <<>>]

RECURSIVE Normalize(_)
Normalize(data) ==
    IF data = <<>> THEN <<>>
    ELSE IF Head(data).id = NoId THEN Normalize(Tail(data))
    ELSE <<NormalizeItem(Head(data))>> \o Normalize(Tail(data))

\* load_catalog without the isinstance(data, list) test
load_catalog_unchecked(src) ==
    IF ~src.exists THEN [error |-> "FileNotFoundError", value |-> <<>>]
    ELSE [error |-> "none", value |-> Normalize(src.records)]

load_catalog(src) ==
    IF ~src.exists THEN [error |-> "FileNotFoundError", value |-> <<>>]
    ELSE IF src.top # "list" THEN [error |-> "ValueError", value |-> <<>>]
    ELSE [error |-> "none", value |-> Normalize(src.records)]

(***************************************************************************)
(* networkx.DiGraph: nodes and edges in insertion order, node attributes.  *)
(***************************************************************************)
EmptyGraph == [nodes |-> <<>>, names |-> EmptyDict, edges |-> <<>>]

NodeSet(g) == Range(g.nodes)
EdgeSet(g) == Range(g.edges)

AppendNew(s, x) == IF x \in Range(s) THEN s ELSE Append(s, x)

add_node(g, n, nm) ==
    [nodes |-> AppendNew(g.nodes, n),
     names |-> [x \in DOMAIN g.names \cup {n} |-> IF x = n THEN nm ELSE g.names[x]],
     edges |-> g.edges]

add_edge(g, u, v) ==
    [nodes |-> AppendNew(AppendNew(g.nodes, u), v),
     names |-> g.names,
     edges |-> AppendNew(g.edges, <<u, v>>)]

successors(g, n) == SelectSeq(g.edges, LAMBDA e : e[1] = n)
predecessors(g, n) == SelectSeq(g.edges, LAMBDA e : e[2] = n)
out_degree(g, n) == Len(successors(g, n))
in_degree(g, n) == Len(predecessors(g, n))

(***************************************************************************)
(* load_course_graph: builds the graph from the raw records of the source. *)
(***************************************************************************)
RECURSIVE AddPrereqEdges(_, _, _)
AddPrereqEdges(g, items, course_id) ==
    IF items = <<>> THEN g
    ELSE AddPrereqEdges(add_edge(g, Head(items), course_id), Tail(items), course_id)

RECURSIVE AddCourses(_, _)
AddCourses(g, data) ==
    IF data = <<>> THEN [error |-> "none", graph |-> g]
    ELSE LET before == AddCourses(g, SubSeq(data, 1, Len(data) - 1))
             course == data[Len(data)]
         IN  IF before.error # "none" THEN before
             ELSE IF course.id = NoId \/ course.name = NoName
             THEN [error |-> "KeyError", graph |-> EmptyGraph]
             ELSE IF course.prerequisites.kind = "null"
             THEN [error |-> "TypeError", graph |-> EmptyGraph]
             ELSE [error |-> "none",
                   graph |-> AddPrereqEdges(add_node(before.graph, course.id, course.name),
                                            course.prerequisites.items, course.id)]

load_course_graph(src) ==
    IF ~src.exists THEN [error |-> "FileNotFoundError", graph |-> EmptyGraph]
    ELSE IF src.top # "list" THEN [error |-> "TypeError", graph |-> EmptyGraph]
    ELSE AddCourses(EmptyGraph, src.records)

build_graph_from_catalog(src) == load_course_graph(src)

(***************************************************************************)
(* Issue                                                                   *)
(***************************************************************************)
Issue(code, severity, courses, meta) ==
    [code |-> code, severity |-> severity, courses |-> courses, meta |-> meta]

Min(a, b) == IF a < b THEN a ELSE b

\* stable sort of a sequence of <<key, value>> pairs by ascending integer key
\* (list.sort: equal keys keep their order)
RECURSIVE InsertByKey(_, _)
InsertByKey(sorted, p) ==
    IF sorted = <<>> THEN <<p>>
    ELSE IF Head(sorted)[1] <= p[1] THEN <<Head(sorted)>> \o InsertByKey(Tail(sorted), p)
    ELSE <<p>> \o sorted

RECURSIVE SortByKey(_)
SortByKey(pairs) ==
    IF pairs = <<>> THEN <<>>
    ELSE InsertByKey(SortByKey(SubSeq(pairs, 1, Len(pairs) - 1)), pairs[Len(pairs)])

Values(pairs) == [i \in DOMAIN pairs |-> pairs[i][2]]

\* sorted(list) of ids
sorted(s) == Values(SortByKey([i \in DOMAIN s |-> <<s[i], s[i]>>]))

(***************************************************************************)
(* detect_cycles: networkx.simple_cycles, every elementary cycle once.     *)
(* Each cycle is found from its first node in node order, which is then    *)
(* removed from the search.                                                *)
(***************************************************************************)
RECURSIVE ExtendCycles(_, _, _, _)
ExtendCycles(g, path, todo, allowed) ==
    IF todo = <<>> THEN <<>>
    ELSE LET w == Head(todo)[2]
             here == IF w = path[1] THEN <<path>>
                     ELSE IF w \in allowed /\ w \notin Range(path)
                     THEN ExtendCycles(g, Append(path, w), successors(g, w), allowed)
                     ELSE <<>>
         IN  here \o ExtendCycles(g, path, Tail(todo), allowed)

RECURSIVE CyclesFromRoots(_, _)
CyclesFromRoots(g, roots) ==
    IF roots = <<>> THEN <<>>
    ELSE ExtendCycles(g, <<Head(roots)>>, successors(g, Head(roots)), Range(roots))
         \o CyclesFromRoots(g, Tail(roots))

detect_cycles(g) == CyclesFromRoots(g, g.nodes)

\* check_cycles that reports the cycle as discovered, without sorted()
check_cycles_unsorted(g) ==
    LET cycles == detect_cycles(g)
    IN  [i \in DOMAIN cycles |->
            Issue("cycle", "high", cycles[i], [cycle |-> cycles[i]])]

check_cycles(g) ==
    LET cycles == detect_cycles(g)
    IN  [i \in DOMAIN cycles |->
            Issue("cycle", "high", sorted(cycles[i]), [cycle |-> cycles[i]])]

(***************************************************************************)
(* check_missing_prereqs                                                   *)
(***************************************************************************)
RECURSIVE MissingIssues(_, _, _)
MissingIssues(g, nodes, real_course_ids) ==
    IF nodes = <<>> THEN <<>>
    ELSE LET node == Head(nodes)
             succ == successors(g, node)
             referenced_by == [i \in DOMAIN succ |-> succ[i][2]]
             rest == MissingIssues(g, Tail(nodes), real_course_ids)
         IN  IF node \notin real_course_ids
             THEN <<Issue("missing_prereq", "high", <<node>>,
                          [referenced_by |-> referenced_by])>> \o rest
             ELSE rest

\* check_missing_prereqs that reports the courses the node requires
check_missing_prereqs_predecessors(g, real_course_ids) ==
    LET issues == MissingIssues(g, g.nodes, real_course_ids)
    IN  [i \in DOMAIN issues |->
            LET pred == predecessors(g, issues[i].courses[1])
            IN  [issues[i] EXCEPT !.meta =
                    [referenced_by |-> [j \in DOMAIN pred |-> pred[j][1]]]]]

\* check_missing_prereqs that looks for declared ids missing from the graph
check_missing_prereqs_declared(g, real_course_ids) ==
    MissingIssues(g, SelectSeq(g.nodes, LAMBDA n : n \in real_course_ids), NodeSet(g))

check_missing_prereqs(g, real_course_ids) == MissingIssues(g, g.nodes, real_course_ids)

(***************************************************************************)
(* check_isolated and check_bottlenecks iterate the set real_course_ids;   *)
(* `order` is the order in which the set is iterated.                      *)
(***************************************************************************)
\* check_isolated that takes every course without a prerequisite
RECURSIVE check_isolated_roots(_, _)
check_isolated_roots(g, order) ==
    IF order = <<>> THEN <<>>
    ELSE LET node == Head(order)
             rest == check_isolated_roots(g, Tail(order))
         IN  IF node \in NodeSet(g) /\ in_degree(g, node) = 0
             THEN <<Issue("isolated_course", "low", <<node>>, EmptyDict)>> \o rest
             ELSE rest

RECURSIVE check_isolated(_, _)
check_isolated(g, order) ==
    IF order = <<>> THEN <<>>
    ELSE LET node == Head(order)
             rest == check_isolated(g, Tail(order))
         IN  IF node \in NodeSet(g) /\ in_degree(g, node) = 0 /\ out_degree(g, node) = 0
             THEN <<Issue("isolated_course", "low", <<node>>, EmptyDict)>> \o rest
             ELSE rest

RECURSIVE Candidates(_, _, _)
Candidates(g, order, min_out_degree) ==
    IF order = <<>> THEN <<>>
    ELSE LET node == Head(order)
             rest == Candidates(g, Tail(order), min_out_degree)
         IN  IF node \in NodeSet(g) /\ out_degree(g, node) >= min_out_degree
             THEN <<[id |-> node, out_degree |-> out_degree(g, node)]>> \o rest
             ELSE rest

\* check_bottlenecks that returns every candidate as its second value
check_bottlenecks_all_candidates(g, order, top_k, min_out_degree) ==
    LET found == Candidates(g, order, min_out_degree)
        candidates == Values(SortByKey([i \in DOMAIN found |-> <<0 - found[i].out_degree, found[i]>>]))
        top_bottlenecks == SubSeq(candidates, 1, Min(top_k, Len(candidates)))
    IN  [issues |-> [i \in DOMAIN top_bottlenecks |->
                        Issue("bottleneck", "medium", <<top_bottlenecks[i].id>>,
                              [out_degree |-> top_bottlenecks[i].out_degree])],
         top_bottlenecks |-> candidates]

\* check_bottlenecks whose sort lacks reverse=True
check_bottlenecks_ascending(g, order, top_k, min_out_degree) ==
    LET found == Candidates(g, order, min_out_degree)
        candidates == Values(SortByKey([i \in DOMAIN found |-> <<found[i].out_degree, found[i]>>]))
        top_bottlenecks == SubSeq(candidates, 1, Min(top_k, Len(candidates)))
    IN  [issues |-> [i \in DOMAIN top_bottlenecks |->
                        Issue("bottleneck", "medium", <<top_bottlenecks[i].id>>,
                              [out_degree |-> top_bottlenecks[i].out_degree])],
         top_bottlenecks |-> top_bottlenecks]

check_bottlenecks(g, order, top_k, min_out_degree) ==
    LET found == Candidates(g, order, min_out_degree)
        candidates == Values(SortByKey([i \in DOMAIN found |-> <<0 - found[i].out_degree, found[i]>>]))
        top_bottlenecks == SubSeq(candidates, 1, Min(top_k, Len(candidates)))
    IN  [issues |-> [i \in DOMAIN top_bottlenecks |->
                        Issue("bottleneck", "medium", <<top_bottlenecks[i].id>>,
                              [out_degree |-> top_bottlenecks[i].out_degree])],
         top_bottlenecks |-> top_bottlenecks]

(***************************************************************************)
(* networkx.topological_sort (topological_generations): nodes of in-degree *)
(* zero first, a child joins the next generation when its last pending     *)
(* predecessor has been processed.  feasible is FALSE when nodes are left  *)
(* over (NetworkXUnfeasible), which is how is_directed_acyclic_graph       *)
(* recognises a cycle.                                                     *)
(***************************************************************************)
RECURSIVE ProcessChildren(_, _)
ProcessChildren(st, children) ==
    IF children = <<>> THEN st
    ELSE LET child == Head(children)[2]
             left == st.indegree[child] - 1
             indeg == [st.indegree EXCEPT ![child] = left]
         IN  ProcessChildren([indegree |-> indeg,
                              zero |-> IF left = 0 THEN Append(st.zero, child) ELSE st.zero],
                             Tail(children))

RECURSIVE ProcessGeneration(_, _, _)
ProcessGeneration(g, st, generation) ==
    IF generation = <<>> THEN st
    ELSE ProcessGeneration(g, ProcessChildren(st, successors(g, Head(generation))),
                           Tail(generation))

RECURSIVE Generations(_, _, _, _)
Generations(g, indegree, zero_indegree, order) ==
    IF zero_indegree = <<>>
    THEN [order |-> order, feasible |-> \A v \in DOMAIN indegree : indegree[v] = 0]
    ELSE LET st == ProcessGeneration(g, [indegree |-> indegree, zero |-> <<>>], zero_indegree)
         IN  Generations(g, st.indegree, st.zero, order \o zero_indegree)

topological_sort(g) ==
    Generations(g, [v \in NodeSet(g) |-> in_degree(g, v)],
                SelectSeq(g.nodes, LAMBDA v : in_degree(g, v) = 0), <<>>)

is_directed_acyclic_graph(g) == topological_sort(g).feasible

(***************************************************************************)
(* networkx.dag_longest_path: dist[v] = <<edges of the longest path ending *)
(* at v, its predecessor on that path>>, filled in topological order.      *)
(***************************************************************************)
\* max(us, key = length): the first element with the largest length
RECURSIVE FirstMax(_, _)
FirstMax(best, us) ==
    IF us = <<>> THEN best
    ELSE FirstMax(IF Head(us)[1] > best[1] THEN Head(us) ELSE best, Tail(us))

RECURSIVE LongestDist(_, _, _)
LongestDist(g, order, dist) ==
    IF order = <<>> THEN dist
    ELSE LET v == Head(order)
             pred == predecessors(g, v)
             us == [i \in DOMAIN pred |-> <<dist[pred[i][1]][1] + 1, pred[i][1]>>]
             maxu == IF us = <<>> THEN <<0, v>> ELSE FirstMax(Head(us), Tail(us))
         IN  LongestDist(g, Tail(order),
                         [x \in DOMAIN dist \cup {v} |-> IF x = v THEN maxu ELSE dist[x]])

RECURSIVE WalkBack(_, _, _)
WalkBack(dist, v, path) ==
    IF dist[v][2] = v THEN <<v>> \o path
    ELSE WalkBack(dist, dist[v][2], <<v>> \o path)

dag_longest_path(g) ==
    IF g.nodes = <<>> THEN <<>>
    ELSE LET order == topological_sort(g).order
             dist == LongestDist(g, order, EmptyDict)
             ends == [i \in DOMAIN order |-> <<dist[order[i]][1], order[i]>>]
             v == FirstMax(Head(ends), Tail(ends))[2]
         IN  WalkBack(dist, v, <<>>)

(***************************************************************************)
(* check_longest_chain                                                     *)
(***************************************************************************)
LongChainIssues(longest_path, length) ==
    IF length > LongChainThreshold
    THEN <<Issue("long_chain",
                 IF length > LongChainMedium THEN "medium" ELSE "low",
                 <<longest_path[Len(longest_path)]>>,
                 [length |-> length, path |-> longest_path])>>
    ELSE <<>>

\* check_longest_chain that reports a cyclic graph as not blocked
check_longest_chain_unblocked(g) ==
    IF ~is_directed_acyclic_graph(g)
    THEN [issues |-> <<>>, length |-> 0, path |-> <<>>, blocked |-> FALSE]
    ELSE LET longest_path == dag_longest_path(g)
         IN  [issues |-> LongChainIssues(longest_path, Len(longest_path)),
              length |-> Len(longest_path), path |-> longest_path, blocked |-> FALSE]

\* check_longest_chain that counts the edges of the path, not its nodes
check_longest_chain_edges(g) ==
    IF ~is_directed_acyclic_graph(g)
    THEN [issues |-> <<>>, length |-> 0, path |-> <<>>, blocked |-> TRUE]
    ELSE LET longest_path == dag_longest_path(g)
             length == IF longest_path = <<>> THEN 0 ELSE Len(longest_path) - 1
         IN  [issues |-> LongChainIssues(longest_path, length),
              length |-> length, path |-> longest_path, blocked |-> FALSE]

check_longest_chain(g) ==
    IF ~is_directed_acyclic_graph(g)
    THEN [issues |-> <<>>, length |-> 0, path |-> <<>>, blocked |-> TRUE]
    ELSE LET longest_path == dag_longest_path(g)
             length == Len(longest_path)
         IN  [issues |-> LongChainIssues(longest_path, length),
              length |-> length, path |-> longest_path, blocked |-> FALSE]

(***************************************************************************)
(* analyze_catalog, after the two reads: the five checks, the metrics and  *)
(* the sort of the issues by (severity, code, first course).               *)
(***************************************************************************)
SevRank(severity) ==
    CASE severity = "high" -> 0
      [] severity = "medium" -> 1
      [] severity = "low" -> 2
      [] OTHER -> 99

\* position of the issue code in the lexicographic order of the codes
CodeRank(code) ==
    CASE code = "bottleneck" -> 0
      [] code = "cycle" -> 1
      [] code = "isolated_course" -> 2
      [] code = "long_chain" -> 3
      [] code = "missing_prereq" -> 4

EmptyString == 0    \* "" sorts before every id

FirstCourse(issue) == IF issue.courses # <<>> THEN issue.courses[1] ELSE EmptyString

\* a key without its third component
SortKey_without_course(issue) ==
    (SevRank(issue.severity) * 10 + CodeRank(issue.code)) * 1000

\* the key tuple, as one integer in the same order
SortKey(issue) ==
    (SevRank(issue.severity) * 10 + CodeRank(issue.code)) * 1000 + FirstCourse(issue)

SortIssues(all_issues) ==
    Values(SortByKey([i \in DOMAIN all_issues |-> <<SortKey(all_issues[i]), all_issues[i]>>]))

RunAllChecks(g, real, order, cfg) ==
    LET cycle_issues == check_cycles(g)
        missing_issues == check_missing_prereqs(g, real)
        iso_issues == check_isolated(g, order)
        bots == check_bottlenecks(g, order,
                                  Get(cfg, "top_bottlenecks", DefaultTopBottlenecks),
                                  Get(cfg, "min_bottleneck", DefaultMinBottleneck))
        chain == check_longest_chain(g)
    IN  [metrics |-> [course_count |-> Cardinality(real),
                      total_nodes_in_graph |-> Len(g.nodes),
                      num_cycles |-> Len(cycle_issues),
                      num_missing_prereqs |-> Len(missing_issues),
                      num_isolated |-> Len(iso_issues),
                      top_bottlenecks |-> bots.top_bottlenecks,
                      longest_chain_len |-> chain.length,
                      longest_chain_path |-> chain.path,
                      longest_chain_blocked_by_cycles |-> chain.blocked],
         issues |-> SortIssues(cycle_issues \o missing_issues \o iso_issues
                               \o bots.issues \o chain.issues)]

(***************************************************************************)
(* get_prereq_chain (logic.py).  The elements of a chain are the attribute *)
(* dicts of the nodes with the id injected.                                *)
(***************************************************************************)
topic_attrs(g, topic_id) ==
    [id |-> topic_id,
     name |-> IF topic_id \in DOMAIN g.names THEN g.names[topic_id] ELSE NoName]

ChainIds(chain) == [i \in DOMAIN chain |-> chain[i].id]

\* visited.add(topic_id) left out
add_visited_forgotten(visited_set, topic_id) == visited_set

add_visited(visited_set, topic_id) == visited_set \cup {topic_id}

\* step 2 with the test inverted
append_topic_inverted(g, chain, topic_id) ==
    LET already_in_chain == Range(ChainIds(chain))
    IN  IF topic_id \in already_in_chain
        THEN Append(chain, topic_attrs(g, topic_id)) ELSE chain

\* step 2 that puts the topic in front of its prerequisites
append_topic_in_front(g, chain, topic_id) ==
    LET already_in_chain == Range(ChainIds(chain))
    IN  IF topic_id \notin already_in_chain
        THEN <<topic_attrs(g, topic_id)>> \o chain ELSE chain

\* step 2: the topic itself, unless the chain has it
append_topic(g, chain, topic_id) ==
    LET already_in_chain == Range(ChainIds(chain))
    IN  IF topic_id \notin already_in_chain
        THEN Append(chain, topic_attrs(g, topic_id)) ELSE chain

\* the test of line 23 left out
not_in_graph_untested(g, topic_id) == FALSE

\* `topic_id not in graph`
not_in_graph(g, topic_id) == topic_id \notin NodeSet(g)

(***************************************************************************)
(* get_unlocked_courses (topic_graph.py): the nodes, in the order of       *)
(* graph.nodes(), that are not completed and whose predecessors all are.   *)
(***************************************************************************)
prerequisites(g, node) ==
    LET pred == predecessors(g, node)
    IN  [i \in DOMAIN pred |-> pred[i][1]]

\* get_unlocked_courses with any() in the place of all()
get_unlocked_courses_any(g, completed_ids) ==
    LET completed == Range(completed_ids)
    IN  SelectSeq(g.nodes, LAMBDA node :
            /\ node \notin completed
            /\ \E prereq \in Range(prerequisites(g, node)) : prereq \in completed)

get_unlocked_courses(g, completed_ids) ==
    LET completed == Range(completed_ids)
    IN  SelectSeq(g.nodes, LAMBDA node :
            /\ node \notin completed
            /\ \A prereq \in Range(prerequisites(g, node)) : prereq \in completed)

\* the activation of get_prereq_chain for topic_id at the start of its loop
\* over graph.predecessors(topic_id)
Frame(g, topic_id) ==
    LET pred == predecessors(g, topic_id)
    IN  [topic_id |-> topic_id,
         todo |-> [i \in DOMAIN pred |-> pred[i][1]],
         chain |-> <<>>]

(***************************************************************************)
(* The HTTP service around the engine: the catalog and report directories, *)
(* the job store, and the background tasks that run the analysis.          *)
(***************************************************************************)
\* uuid.uuid4(): catalogs, jobs and reports draw their ids from the same
\* space and never draw the same id twice; an id nobody was ever given
\* stands for the ids a client makes up
NonExistentId == 0
CatalogUuids == 1..MaxCatalogs
JobUuids == (MaxCatalogs + 1)..(MaxCatalogs + 2 * MaxTasks)
ReportUuids == (MaxCatalogs + 2 * MaxTasks + 1)..(MaxCatalogs + 3 * MaxTasks)

Smallest(S) == CHOOSE x \in S : \A y \in S : x <= y
uuid4(space, used) == Smallest(space \ used)

None == 0                  \* report_id of a job without a report
NoBody == EmptyDict

Response(request, code, body) ==
    [request |-> request, code |-> code, body |-> body]

NoResponse == Response("none", 0, NoBody)

\* the bytes of an upload or of a fetched document: they parse as JSON or
\* not, and a parsed document is the top-level value of a catalog source
Content(valid, top, records) ==
    [valid |-> valid, top |-> top, records |-> records]

RecordWithoutId ==
    [id |-> NoId, name |-> "Course", prerequisites |-> [kind |-> "list", items |-> <<>>]]

Contents ==
    {Content(FALSE, "null", <<>>),
     Content(TRUE, "object", <<>>),
     Content(TRUE, "string", <<>>),
     Content(TRUE, "list", ChainRecords(1, "forward")),
     Content(TRUE, "list", <<RecordWithoutId>>)}

json_loads(content) ==
    IF content.valid THEN [error |-> "none", top |-> content.top]
    ELSE [error |-> "JSONDecodeError", top |-> "null"]

\* isinstance(data, list) without the test
is_list_unchecked(data) == TRUE

is_list(data) == data.top = "list"

\* the body of the answer to a request that raised an HTTPException
Detail(detail) == [detail |-> detail]

\* process_uploaded_catalog and fetch_catalog_from_url up to their call of
\* save_upload_file: the HTTPException they raise, or 200
validate_catalog(content, invalid_json) ==
    LET data == json_loads(content)
    IN  IF data.error = "JSONDecodeError"
        THEN [code |-> 422, body |-> Detail(invalid_json)]
        ELSE IF ~is_list(data)
        THEN [code |-> 422, body |-> Detail("Catalog must be a list of courses")]
        ELSE [code |-> 200, body |-> NoBody]

\* the file save_upload_file writes
stored_file(content) == Source(TRUE, content.top, content.records)

\* Path(CATALOGS_DIR) / f"{catalog_id}.json", and its exists()
exists_always(directory, catalog_id) == TRUE

exists(directory, catalog_id) == catalog_id \in DOMAIN directory

catalog_file(directory, catalog_id) ==
    IF catalog_id \in DOMAIN directory THEN directory[catalog_id]
    ELSE Source(FALSE, "null", <<>>)

\* the exception analyze_catalog raises on the file, "none" when it returns
\* a Report
analysis_error(src) ==
    IF load_catalog(src).error # "none" THEN load_catalog(src).error
    ELSE load_course_graph(src).error

(***************************************************************************)
(* _is_safe_url.  A URL is its scheme and its host; a host is a name or an *)
(* IP literal, which ipaddress.ip_address parses.                          *)
(***************************************************************************)
Url(scheme, host) == [scheme |-> scheme, hostname |-> host]

HostName(name) == [literal |-> "name", name |-> name, addr |-> <<>>]
IPv4(a, b, c, d) == [literal |-> "ipv4", name |-> "", addr |-> <<a, b, c, d>>]
\* an IPv6 literal whose hextets between the first and the last are zero
IPv6(first, last) == [literal |-> "ipv6", name |-> "", addr |-> <<first, last>>]

NoHost == HostName("")

Hosts ==
    {NoHost, HostName("localhost"), HostName("example.com"),
     IPv4(127, 0, 0, 1), IPv4(10, 0, 0, 1), IPv4(192, 168, 1, 1),
     IPv4(169, 254, 169, 254), IPv4(8, 8, 8, 8), IPv6(0, 1)}

\* every host over http, two of them over https, and the URLs of other
\* schemes that the tests post
Urls ==
    {Url("http", host) : host \in Hosts}
    \cup {Url("https", HostName("example.com")), Url("https", HostName("localhost")),
          Url("ftp", HostName("example.com")), Url("file", NoHost)}

\* ipaddress: is_loopback, is_link_local and is_private of an address
is_loopback(ip) ==
    IF ip.literal = "ipv4" THEN ip.addr[1] = 127
    ELSE ip.addr = <<0, 1>>

is_link_local(ip) ==
    IF ip.literal = "ipv4" THEN ip.addr[1] = 169 /\ ip.addr[2] = 254
    ELSE ip.addr[1] \in 65152..65215

is_private(ip) ==
    IF ip.literal = "ipv4"
    THEN LET a == ip.addr[1]
             b == ip.addr[2]
             c == ip.addr[3]
             d == ip.addr[4]
         IN  \/ a \in {0, 10, 127}
             \/ a = 169 /\ b = 254
             \/ a = 172 /\ b \in 16..31
             \/ a = 192 /\ b = 168
             \/ a = 192 /\ b = 0 /\ c = 0 /\ (d <= 7 \/ d \in 170..171)
             \/ a = 192 /\ b = 0 /\ c = 2
             \/ a = 198 /\ b \in 18..19
             \/ a = 198 /\ b = 51 /\ c = 100
             \/ a = 203 /\ b = 0 /\ c = 113
             \/ a >= 240
    ELSE \/ ip.addr \in {<<0, 0>>, <<0, 1>>}
         \/ ip.addr[1] \in 64512..65023
         \/ ip.addr[1] \in 65152..65215

DeniedNames == {"localhost", "127.0.0.1", "::1"}

\* _is_safe_url without the list of denied names
is_safe_url_by_address(url) ==
    IF url.scheme \notin {"http", "https"} THEN FALSE
    ELSE IF url.hostname = NoHost THEN FALSE
    ELSE IF url.hostname.literal = "name" THEN TRUE
    ELSE ~(is_private(url.hostname) \/ is_loopback(url.hostname)
             \/ is_link_local(url.hostname))

is_safe_url(url) ==
    IF url.scheme \notin {"http", "https"} THEN FALSE
    ELSE IF url.hostname = NoHost THEN FALSE
    ELSE IF url.hostname.literal = "name" THEN url.hostname.name \notin DeniedNames
    ELSE ~(is_private(url.hostname) \/ is_loopback(url.hostname)
             \/ is_link_local(url.hostname))

(***************************************************************************)
(* JobStore                                                                *)
(***************************************************************************)
JobStatus == {"queued", "running", "done", "failed"}

Job(job_id, catalog_id) ==
    [job_id |-> job_id, status |-> "queued", catalog_id |-> catalog_id,
     report_id |-> None, error |-> "none"]

\* JobStore.create_job(catalog_id): the id it draws, and the store after it
create_job(jobs_before, job_id, catalog_id) ==
    (job_id :> Job(job_id, catalog_id)) @@ jobs_before

get_job(store, job_id) ==
    IF job_id \in DOMAIN store THEN store[job_id] ELSE NoBody

\* JobStore.update_job, its first assignment: the status
update_status(store, job_id, status) ==
    IF job_id \in DOMAIN store
    THEN [store EXCEPT ![job_id].status = status]
    ELSE store

\* JobStore.update_job, its last assignments: the report id and the error,
\* each when it is truthy
update_details(store, job_id, report_id, err) ==
    IF job_id \in DOMAIN store
    THEN [store EXCEPT
            ![job_id].report_id = IF report_id # None THEN report_id ELSE @,
            ![job_id].error = IF err # "none" THEN err ELSE @]
    ELSE store

\* run_analysis_task: the status its except clause records; a task that
\* leaves the job as it is
status_on_exception_kept == "running"

status_on_exception == "failed"

\* a background task of run_analysis_task(job_id, catalog_id, options)
Task(job_id, catalog_id) ==
    [job_id |-> job_id, catalog_id |-> catalog_id, pc |-> "scheduled",
     report_id |-> None, error |-> "none"]

(***************************************************************************)
(* State: the catalog source and the configuration handed to one call of   *)
(* analyze_catalog, and the locals of that call; the target of one call of *)
(* get_prereq_chain on the graph, the visited set its activations share,   *)
(* the stack of its activations, the chain it returned and the ids whose   *)
(* predecessors it went through, in that order.                            *)
(***************************************************************************)
VARIABLES source, config, pc, cat_data, real_ids, graph, report, error

VARIABLES topic, visited, stack, result, expanded

\* the collection handed to one call of get_unlocked_courses on the graph,
\* and the list it returned
VARIABLES completed_courses, unlocked

\* the service: the files of the catalog directory by catalog id, the job
\* store, the ids of the files of the report directory, the background tasks
\* in the order they were added, the hosts fetched from so far and the
\* response to the last request
VARIABLES catalogs, jobs, reports, tasks, fetched, response

chain_vars == <<topic, visited, stack, result, expanded>>
unlocked_vars == <<completed_courses, unlocked>>
api_vars == <<catalogs, jobs, reports, tasks, fetched, response>>

\* what analyze_catalog does not touch, what get_prereq_chain does not touch
outside_analysis == <<chain_vars, unlocked_vars, api_vars>>
outside_chain == <<unlocked_vars, api_vars>>

vars == <<source, config, pc, cat_data, real_ids, graph, report, error,
          chain_vars, unlocked_vars, api_vars>>

NoApiCall ==
    /\ catalogs = EmptyDict
    /\ jobs = EmptyDict
    /\ reports = {}
    /\ tasks = <<>>
    /\ fetched = {}
    /\ response = NoResponse

NoChainCall ==
    /\ topic = NoId
    /\ visited = {}
    /\ stack = <<>>
    /\ result = <<>>
    /\ expanded = <<>>

NoUnlockedCall ==
    /\ completed_courses = <<>>
    /\ unlocked = <<>>

NoReport == EmptyDict

Started(src, cfg) ==
    /\ source = src
    /\ config = cfg
    /\ pc = "start"
    /\ cat_data = <<>>
    /\ real_ids = {}
    /\ graph = EmptyGraph
    /\ report = NoReport
    /\ error = "none"
    /\ NoChainCall
    /\ NoUnlockedCall
    /\ NoApiCall

\* the source is a list: a chain of up to MaxChain courses, followed by at
\* most one free-form record
InitCatalog ==
    \E n \in 0..MaxChain : \E listing \in Listings :
    \E extra \in [1..1 -> RawRecords] \cup {<<>>} :
    \E cfg \in Configs \cup (IF n <= MaxPermuted THEN WideConfigs ELSE {}) :
        Started(Source(TRUE, "list", ChainRecords(n, listing) \o extra), cfg)

\* the source is not a list, or does not exist
InitUnreadable ==
    \/ \E top \in TopKinds \ {"list"} : Started(Source(TRUE, top, <<>>), EmptyDict)
    \/ Started(Source(FALSE, "list", <<>>), EmptyDict)

Init == InitCatalog \/ InitUnreadable

\* load_catalog returns: cat_data and real_ids are set
LoadCatalog ==
    /\ pc = "start"
    /\ load_catalog(source).error = "none"
    /\ cat_data' = load_catalog(source).value
    /\ real_ids' = {cat_data'[i].id : i \in DOMAIN cat_data'}
    /\ pc' = "loaded"
    /\ UNCHANGED <<source, config, graph, report, error, outside_analysis>>

\* load_catalog raises FileNotFoundError
LoadCatalogNotFound ==
    /\ pc = "start"
    /\ load_catalog(source).error = "FileNotFoundError"
    /\ error' = "FileNotFoundError"
    /\ pc' = "raised"
    /\ UNCHANGED <<source, config, cat_data, real_ids, graph, report, outside_analysis>>

\* load_catalog raises ValueError
LoadCatalogInvalidShape ==
    /\ pc = "start"
    /\ load_catalog(source).error = "ValueError"
    /\ error' = "ValueError"
    /\ pc' = "raised"
    /\ UNCHANGED <<source, config, cat_data, real_ids, graph, report, outside_analysis>>

\* build_graph_from_catalog returns the graph
BuildGraph ==
    /\ pc = "loaded"
    /\ build_graph_from_catalog(source).error = "none"
    /\ graph' = build_graph_from_catalog(source).graph
    /\ pc' = "built"
    /\ UNCHANGED <<source, config, cat_data, real_ids, report, error, outside_analysis>>

\* build_graph_from_catalog raises
BuildGraphRaises ==
    /\ pc = "loaded"
    /\ build_graph_from_catalog(source).error # "none"
    /\ error' = build_graph_from_catalog(source).error
    /\ pc' = "raised"
    /\ UNCHANGED <<source, config, cat_data, real_ids, graph, report, outside_analysis>>

IterationOrders(S) == {p \in [1..Cardinality(S) -> S] : Range(p) = S}

\* the ids for which a loop over real_course_ids does something
Relevant(g, real, cfg) ==
    {n \in real : n \in NodeSet(g) /\
        \/ in_degree(g, n) = 0 /\ out_degree(g, n) = 0
        \/ out_degree(g, n) >= Get(cfg, "min_bottleneck", DefaultMinBottleneck)}

\* the checks, the sort and the Report; the iteration order of the set
\* real_ids is not determined by the program
RunChecks ==
    /\ pc = "built"
    /\ \E order \in IterationOrders(Relevant(graph, real_ids, config)) :
          report' = RunAllChecks(graph, real_ids, order, config)
    /\ pc' = "done"
    /\ UNCHANGED <<source, config, cat_data, real_ids, graph, error, outside_analysis>>

Next ==
    \/ LoadCatalog
    \/ LoadCatalogNotFound
    \/ LoadCatalogInvalidShape
    \/ BuildGraph
    \/ BuildGraphRaises
    \/ RunChecks

Spec == Init /\ [][Next]_vars

(***************************************************************************)
(* analyze_catalog while another process rewrites the catalog source: the  *)
(* file is replaced, at any moment before the checks, by a chain of up to  *)
(* MaxPermuted courses.                                                    *)
(***************************************************************************)
InitRewrite ==
    \E n \in 0..MaxPermuted : \E listing \in Listings :
    \E extra \in [1..1 -> RawRecords] \cup {<<>>} :
        Started(Source(TRUE, "list", ChainRecords(n, listing) \o extra), EmptyDict)

RewriteSource ==
    /\ pc \in {"start", "loaded", "built"}
    /\ \E n \in 0..MaxPermuted : \E listing \in Listings :
          /\ source' = Source(TRUE, "list", ChainRecords(n, listing))
          /\ source' # source
    /\ UNCHANGED <<config, pc, cat_data, real_ids, graph, report, error, outside_analysis>>

NextRewrite ==
    \/ LoadCatalog
    \/ BuildGraph
    \/ BuildGraphRaises
    \/ RunChecks
    \/ RewriteSource

SpecRewrite == InitRewrite /\ [][NextRewrite]_vars

(***************************************************************************)
(* One call get_prereq_chain(graph, topic) on the graph of a catalog, as   *)
(* main.py makes it.  The catalog declares the courses 1..k and gives each *)
(* a set of prerequisites among the ids; records and prerequisites are     *)
(* listed in ascending or in descending order.  An id that is neither      *)
(* declared nor required is not in the graph.                              *)
(***************************************************************************)
RECURSIVE Ascending(_)
Ascending(S) ==
    IF S = {} THEN <<>>
    ELSE LET least == CHOOSE x \in S : \A y \in S : x <= y
         IN  <<least>> \o Ascending(S \ {least})

Reverse(s) == [i \in DOMAIN s |-> s[Len(s) + 1 - i]]

Listed_in(S, listing) == IF listing = "forward" THEN Ascending(S) ELSE Reverse(Ascending(S))

RequiresRecords(requires, listing) ==
    LET ids == Listed_in(DOMAIN requires, listing)
    IN  [i \in DOMAIN ids |->
            [id |-> ids[i], name |-> "Course",
             prerequisites |-> [kind |-> "list",
                                items |-> Listed_in(requires[ids[i]], listing)]]]

EdgeCount(requires) ==
    Cardinality({e \in Ids \X DOMAIN requires : e[1] \in requires[e[2]]})

\* the recursion is never deeper than the number of nodes
MaxDepth == NumIds + 1

InitChain ==
    \E declared \in {1..NumIds, 1..(NumIds - 1)} :
    \E requires \in [declared -> SUBSET Ids] :
    \E listing \in Listings : \E target \in Ids :
        /\ EdgeCount(requires) <= MaxEdges
        /\ source = Source(TRUE, "list", RequiresRecords(requires, listing))
        /\ config = EmptyDict
        /\ pc = "called"
        /\ cat_data = <<>>
        /\ real_ids = {}
        /\ graph = load_course_graph(source).graph
        /\ report = NoReport
        /\ error = "none"
        /\ topic = target
        /\ visited = {}
        /\ stack = <<>>
        /\ result = <<>>
        /\ expanded = <<>>
        /\ NoUnlockedCall
        /\ NoApiCall

analysis_vars == <<source, config, cat_data, real_ids, graph, report, error>>

\* the outermost call, topic not in the graph: returns [] after the test of
\* line 23; graph.nodes[topic_id] of line 27 would raise KeyError
CallAbsent ==
    /\ pc = "called"
    /\ topic \notin visited
    /\ topic \notin NodeSet(graph)
    /\ visited' = add_visited(visited, topic)
    /\ IF not_in_graph(graph, topic)
       THEN /\ result' = <<>>
            /\ pc' = "returned"
            /\ UNCHANGED error
       ELSE /\ error' = "KeyError"
            /\ pc' = "raised"
            /\ UNCHANGED result
    /\ UNCHANGED <<source, config, cat_data, real_ids, graph, report>>
    /\ UNCHANGED <<topic, stack, expanded>>
    /\ UNCHANGED outside_chain

\* the outermost call, topic in the graph: up to the loop over predecessors
Call ==
    /\ pc = "called"
    /\ topic \notin visited
    /\ topic \in NodeSet(graph)
    /\ visited' = add_visited(visited, topic)
    /\ stack' = <<Frame(graph, topic)>>
    /\ expanded' = Append(expanded, topic)
    /\ pc' = "running"
    /\ UNCHANGED <<analysis_vars, topic, result>>
    /\ UNCHANGED outside_chain

\* the loop of the innermost activation calls get_prereq_chain for the next
\* predecessor, which is not in visited: a new activation
Recurse ==
    /\ pc = "running"
    /\ Len(stack) < MaxDepth
    /\ LET top == stack[Len(stack)]
       IN  /\ top.todo # <<>>
           /\ Head(top.todo) \notin visited
           /\ visited' = add_visited(visited, Head(top.todo))
           /\ stack' = Append([stack EXCEPT ![Len(stack)].todo = Tail(top.todo)],
                              Frame(graph, Head(top.todo)))
           /\ expanded' = Append(expanded, Head(top.todo))
    /\ UNCHANGED <<analysis_vars, pc, topic, result>>
    /\ UNCHANGED outside_chain

\* the next predecessor is in visited: the call returns [] and the loop
\* extends the chain by nothing
RecurseVisited ==
    /\ pc = "running"
    /\ LET top == stack[Len(stack)]
       IN  /\ top.todo # <<>>
           /\ Head(top.todo) \in visited
           /\ stack' = [stack EXCEPT ![Len(stack)].todo = Tail(top.todo)]
    /\ UNCHANGED <<analysis_vars, pc, topic, visited, result, expanded>>
    /\ UNCHANGED outside_chain

\* the loop of the innermost activation is over: it appends its topic and
\* returns its chain, to the loop of its caller or as the result
Return ==
    /\ pc = "running"
    /\ LET top == stack[Len(stack)]
           chain == append_topic(graph, top.chain, top.topic_id)
           callers == SubSeq(stack, 1, Len(stack) - 1)
       IN  /\ top.todo = <<>>
           /\ IF callers = <<>>
              THEN /\ stack' = <<>>
                   /\ result' = chain
                   /\ pc' = "returned"
              ELSE /\ stack' = [callers EXCEPT ![Len(callers)].chain = @ \o chain]
                   /\ UNCHANGED <<result, pc>>
    /\ UNCHANGED <<analysis_vars, topic, visited, expanded>>
    /\ UNCHANGED outside_chain

NextChain ==
    \/ CallAbsent
    \/ Call
    \/ Recurse
    \/ RecurseVisited
    \/ Return

\* the interpreter goes on executing the call
SpecChain == InitChain /\ [][NextChain]_vars /\ WF_vars(NextChain)

(***************************************************************************)
(* One call get_unlocked_courses(graph, completed_courses) on the graph of *)
(* a catalog of the same family.  The collection lists a set of ids in     *)
(* ascending order, or one id twice; an id of it need not be in the graph. *)
(***************************************************************************)
Collections ==
    {Ascending(S) : S \in SUBSET Ids} \cup {<<x, x>> : x \in Ids}

InitUnlocked ==
    \E declared \in {1..NumIds, 1..(NumIds - 1)} :
    \E requires \in [declared -> SUBSET Ids] :
    \E listing \in Listings : \E collection \in Collections :
        /\ EdgeCount(requires) <= MaxEdges
        /\ source = Source(TRUE, "list", RequiresRecords(requires, listing))
        /\ config = EmptyDict
        /\ pc = "asked"
        /\ cat_data = <<>>
        /\ real_ids = {}
        /\ graph = load_course_graph(source).graph
        /\ report = NoReport
        /\ error = "none"
        /\ NoChainCall
        /\ NoApiCall
        /\ completed_courses = collection
        /\ unlocked = <<>>

GetUnlocked ==
    /\ pc = "asked"
    /\ unlocked' = get_unlocked_courses(graph, completed_courses)
    /\ pc' = "answered"
    /\ UNCHANGED <<analysis_vars, chain_vars, completed_courses, api_vars>>

NextUnlocked == GetUnlocked

SpecUnlocked == InitUnlocked /\ [][NextUnlocked]_vars

(***************************************************************************)
(* The service: requests are handled one at a time by the event loop or by *)
(* a worker thread, and each background task runs on a worker thread of    *)
(* its own, statement by statement, while other requests are served.       *)
(***************************************************************************)
outside_api ==
    <<source, config, pc, cat_data, real_ids, graph, report, error,
      chain_vars, unlocked_vars>>

InitApi ==
    /\ source = Source(FALSE, "null", <<>>)
    /\ config = EmptyDict
    /\ pc = "serving"
    /\ cat_data = <<>>
    /\ real_ids = {}
    /\ graph = EmptyGraph
    /\ report = NoReport
    /\ error = "none"
    /\ NoChainCall
    /\ NoUnlockedCall
    /\ NoApiCall

\* the job ids drawn so far
JobIdsDrawn ==
    DOMAIN jobs \cup {tasks[t].job_id : t \in DOMAIN tasks}

\* what a request may name as a catalog
RequestedCatalogs == DOMAIN catalogs \cup {NonExistentId}

\* what the fetch of a URL ends with, when the guard lets it start
Upstreams(url) ==
    IF ~is_safe_url(url)
    THEN {[outcome |-> "not fetched", content |-> Content(FALSE, "null", <<>>)]}
    ELSE {[outcome |-> "HTTPError", content |-> Content(FALSE, "null", <<>>)],
          [outcome |-> "too large", content |-> Content(FALSE, "null", <<>>)]}
         \cup {[outcome |-> "fetched", content |-> content] : content \in Contents}

\* save_upload_file, and the answer of create_catalog after it
SaveUploadFile(content) ==
    /\ CatalogUuids \ DOMAIN catalogs # {}
    /\ LET catalog_id == uuid4(CatalogUuids, DOMAIN catalogs)
       IN  /\ catalogs' = (catalog_id :> stored_file(content)) @@ catalogs
           /\ response' = Response("create_catalog", 200, [catalog_id |-> catalog_id])

\* POST /catalogs/ with a file
CreateCatalogUpload(content) ==
    /\ pc = "serving"
    /\ LET checked == validate_catalog(content, "Invalid JSON file")
       IN  IF checked.code # 200
           THEN /\ response' = Response("create_catalog", checked.code, checked.body)
                /\ UNCHANGED catalogs
           ELSE SaveUploadFile(content)
    /\ UNCHANGED <<jobs, reports, tasks, fetched, outside_api>>

\* POST /catalogs/ with a source_url
CreateCatalogUrl(url, upstream) ==
    /\ pc = "serving"
    /\ IF ~is_safe_url(url)
       THEN /\ response' =
                  Response("create_catalog", 422, Detail("Invalid or unsafe URL"))
            /\ UNCHANGED <<catalogs, fetched>>
       ELSE /\ fetched' = fetched \cup {url.hostname}
            /\ LET checked == validate_catalog(upstream.content,
                                               "Content from URL is not valid JSON")
               IN  IF upstream.outcome = "HTTPError"
                   THEN /\ response' = Response("create_catalog", 502,
                                                Detail("Failed to fetch upstream URL"))
                        /\ UNCHANGED catalogs
                   ELSE IF upstream.outcome = "too large"
                   THEN /\ response' =
                              Response("create_catalog", 413, Detail("File too large"))
                        /\ UNCHANGED catalogs
                   ELSE IF checked.code # 200
                   THEN /\ response' =
                              Response("create_catalog", checked.code, checked.body)
                        /\ UNCHANGED catalogs
                   ELSE SaveUploadFile(upstream.content)
    /\ UNCHANGED <<jobs, reports, tasks, outside_api>>

\* POST /catalogs/{catalog_id}/analyze
AnalyzeEndpoint(catalog_id) ==
    /\ pc = "serving"
    /\ IF ~exists(catalogs, catalog_id)
       THEN /\ response' = Response("analyze", 404, Detail("Catalog not found"))
            /\ UNCHANGED <<jobs, tasks>>
       ELSE /\ Len(tasks) < MaxTasks
            /\ LET job_id == uuid4(JobUuids, JobIdsDrawn)
               IN  /\ jobs' = create_job(jobs, job_id, catalog_id)
                   /\ tasks' = Append(tasks, Task(job_id, catalog_id))
                   /\ response' = Response("analyze", 200, get_job(jobs', job_id))
    /\ UNCHANGED <<catalogs, reports, fetched, outside_api>>

\* POST /analyze of the dashboard: it draws a job id, calls
\* JobStore.create_job with that id as its argument, and hands the id to
\* the background task and to the page
DashboardAnalyze(catalog_id) ==
    /\ pc = "serving"
    /\ Len(tasks) < MaxTasks
    /\ LET job_id == uuid4(JobUuids, JobIdsDrawn)
           drawn_by_store == uuid4(JobUuids, JobIdsDrawn \cup {job_id})
       IN  /\ jobs' = create_job(jobs, drawn_by_store, job_id)
           /\ tasks' = Append(tasks, Task(job_id, catalog_id))
           /\ response' = Response("dashboard_analyze", 200, get_job(jobs', job_id))
    /\ UNCHANGED <<catalogs, reports, fetched, outside_api>>

\* GET /jobs/{job_id}
GetJobStatus(job_id) ==
    /\ pc = "serving"
    /\ response' = IF job_id \in DOMAIN jobs
                   THEN Response("get_job_status", 200, get_job(jobs, job_id))
                   ELSE Response("get_job_status", 404, Detail("Job not found"))
    /\ UNCHANGED <<catalogs, jobs, reports, tasks, fetched, outside_api>>

\* GET /reports/{report_id}
GetReport(report_id) ==
    /\ pc = "serving"
    /\ response' = IF report_id \in reports
                   THEN Response("get_report", 200, [report_id |-> report_id])
                   ELSE Response("get_report", 404, Detail("Report not found"))
    /\ UNCHANGED <<catalogs, jobs, reports, tasks, fetched, outside_api>>

\* run_analysis_task, statement by statement
At(t, where) == t \in DOMAIN tasks /\ tasks[t].pc = where

TaskStart(t) ==
    /\ At(t, "scheduled")
    /\ jobs' = update_status(jobs, tasks[t].job_id, "running")
    /\ tasks' = [tasks EXCEPT ![t].pc = "running"]
    /\ UNCHANGED <<catalogs, reports, fetched, response, outside_api>>

TaskAnalyze(t) ==
    /\ At(t, "running")
    /\ LET err == IF ~exists(catalogs, tasks[t].catalog_id) THEN "FileNotFoundError"
                  ELSE analysis_error(catalog_file(catalogs, tasks[t].catalog_id))
       IN  IF err # "none"
           THEN /\ tasks' = [tasks EXCEPT ![t].pc = "raised", ![t].error = err]
                /\ UNCHANGED reports
           ELSE LET report_id == uuid4(ReportUuids, reports)
                IN  /\ reports' = reports \cup {report_id}
                    /\ tasks' = [tasks EXCEPT ![t].pc = "saved",
                                              ![t].report_id = report_id]
    /\ UNCHANGED <<catalogs, jobs, fetched, response, outside_api>>

TaskDone(t) ==
    /\ At(t, "saved")
    /\ jobs' = update_status(jobs, tasks[t].job_id, "done")
    /\ tasks' = [tasks EXCEPT ![t].pc = "done, status written"]
    /\ UNCHANGED <<catalogs, reports, fetched, response, outside_api>>

TaskDoneReport(t) ==
    /\ At(t, "done, status written")
    /\ jobs' = update_details(jobs, tasks[t].job_id, tasks[t].report_id, "none")
    /\ tasks' = [tasks EXCEPT ![t].pc = "finished"]
    /\ UNCHANGED <<catalogs, reports, fetched, response, outside_api>>

TaskFailed(t) ==
    /\ At(t, "raised")
    /\ jobs' = update_status(jobs, tasks[t].job_id, status_on_exception)
    /\ tasks' = [tasks EXCEPT ![t].pc = "failed, status written"]
    /\ UNCHANGED <<catalogs, reports, fetched, response, outside_api>>

TaskFailedError(t) ==
    /\ At(t, "failed, status written")
    /\ jobs' = update_details(jobs, tasks[t].job_id, None, tasks[t].error)
    /\ tasks' = [tasks EXCEPT ![t].pc = "finished"]
    /\ UNCHANGED <<catalogs, reports, fetched, response, outside_api>>

RunTasks ==
    \E t \in 1..MaxTasks :
        \/ TaskStart(t)
        \/ TaskAnalyze(t)
        \/ TaskDone(t)
        \/ TaskDoneReport(t)
        \/ TaskFailed(t)
        \/ TaskFailedError(t)

NextApi ==
    \/ \E content \in Contents : CreateCatalogUpload(content)
    \/ \E url \in Urls : \E upstream \in Upstreams(url) : CreateCatalogUrl(url, upstream)
    \/ \E catalog_id \in RequestedCatalogs : AnalyzeEndpoint(catalog_id)
    \/ \E catalog_id \in RequestedCatalogs : DashboardAnalyze(catalog_id)
    \/ \E job_id \in JobUuids : GetJobStatus(job_id)
    \/ \E report_id \in ReportUuids : GetReport(report_id)
    \/ RunTasks

SpecApi == InitApi /\ [][NextApi]_vars /\ WF_vars(RunTasks)

(***************************************************************************)
(* Graph notions the properties are stated with, defined on the node and   *)
(* edge sets alone.                                                        *)
(***************************************************************************)
\* what is left of the graph after removing, again and again, the nodes
\* without a predecessor or without a successor among the nodes left: every
\* node of a cycle stays, and a graph without a cycle is removed entirely
RECURSIVE Core(_, _)
Core(N, E) ==
    LET inner == {n \in N : /\ \E e \in E : e[1] = n /\ e[2] \in N
                            /\ \E e \in E : e[2] = n /\ e[1] \in N}
    IN  IF inner = N THEN N ELSE Core(inner, E)

OnCycle(g) == Core(NodeSet(g), EdgeSet(g))
HasCycle(g) == OnCycle(g) # {}

Injective(s) == \A i, j \in DOMAIN s : s[i] = s[j] => i = j

IsElementaryCycle(g, c) ==
    /\ c # <<>>
    /\ Injective(c)
    /\ \A i \in 1..(Len(c) - 1) : <<c[i], c[i + 1]>> \in EdgeSet(g)
    /\ <<c[Len(c)], c[1]>> \in EdgeSet(g)

\* the elementary cycles, each written from its least node
ElementaryCycles(g) ==
    {c \in UNION {[1..k -> OnCycle(g)] : k \in 1..Cardinality(OnCycle(g))} :
        IsElementaryCycle(g, c) /\ \A i \in DOMAIN c : c[1] <= c[i]}

\* the rotation of a cycle that starts at its least node
Canon(c) ==
    LET k == CHOOSE i \in DOMAIN c : \A j \in DOMAIN c : c[i] <= c[j]
    IN  [i \in DOMAIN c |-> c[((k + i - 2) % Len(c)) + 1]]

Increasing(s) == \A i \in 1..(Len(s) - 1) : s[i] < s[i + 1]

IsPath(g, p) ==
    /\ Injective(p)
    /\ Range(p) \subseteq NodeSet(g)
    /\ \A i \in 1..(Len(p) - 1) : <<p[i], p[i + 1]>> \in EdgeSet(g)

Max(S) == CHOOSE x \in S : \A y \in S : y <= x

\* nodes of the longest simple path that starts at v and avoids `seen`
RECURSIVE LongestFrom(_, _, _)
LongestFrom(g, v, seen) ==
    LET next == {e[2] : e \in {d \in EdgeSet(g) : d[1] = v /\ d[2] \notin seen}}
    IN  IF next = {} THEN 1
        ELSE 1 + Max({LongestFrom(g, w, seen \cup {w}) : w \in next})

\* nodes of the longest simple directed path of the graph
LongestChain(g) ==
    IF NodeSet(g) = {} THEN 0 ELSE Max({LongestFrom(g, v, {v}) : v \in NodeSet(g)})

Built == pc \in {"built", "done"}
Listed == source.exists /\ source.top = "list"
Records == source.records
IssuesOf(code) == SelectSeq(report.issues, LAMBDA i : i.code = code)

(***************************************************************************)
(* Properties of record normalisation and graph construction.              *)
(***************************************************************************)
SelectRecords(keep(_)) == SelectSeq(Records, keep)

WithoutNonLists ==
    [i \in DOMAIN Records |->
        IF Records[i].prerequisites.kind = "list" THEN Records[i]
        ELSE [Records[i] EXCEPT !.prerequisites = [kind |-> "list", items |-> <<>>]]]

\* C1: a catalog list that holds a record without an id is analysed without
\* raising, and the graph the checks run on is the graph of the catalog with
\* that record removed (the other records being well formed).
C1_RecordWithoutIdIsDropped ==
    (/\ Listed
     /\ \E i \in DOMAIN Records : Records[i].id = NoId
     /\ \A i \in DOMAIN Records : Records[i].id # NoId => WellFormed(Records[i]))
    => /\ pc # "raised"
       /\ Built => graph = AddCourses(EmptyGraph, SelectRecords(LAMBDA r : r.id # NoId)).graph

\* C2: a record whose prerequisites value is absent or is not a list counts
\* as a record without prerequisites: the analysis raises no error and the
\* graph is the graph of the catalog with those values replaced by [].
C2_NonListPrerequisitesAreEmpty ==
    (/\ Listed
     /\ \A i \in DOMAIN Records : Records[i].id # NoId /\ Records[i].name # NoName
     /\ \E i \in DOMAIN Records : Records[i].prerequisites.kind # "list")
    => /\ pc # "raised"
       /\ Built => graph = AddCourses(EmptyGraph, WithoutNonLists).graph

\* C3: a record with an id and no name is accepted: the analysis does not
\* raise and the node of a record without a name is named "Unknown".
C3_MissingNameIsUnknown ==
    (/\ Listed
     /\ \A i \in DOMAIN Records :
            Records[i].id # NoId /\ Records[i].prerequisites.kind = "list"
     /\ \E i \in DOMAIN Records : Records[i].name = NoName)
    => /\ pc # "raised"
       /\ Built => \A i \in DOMAIN Records :
                      (/\ Records[i].name = NoName
                       /\ \A j \in DOMAIN Records : j > i => Records[j].id # Records[i].id)
                      => /\ Records[i].id \in DOMAIN graph.names
                         /\ graph.names[Records[i].id] = Unknown

\* C5: a source that does not exist makes the analysis fail with the
\* not-found error, a source whose top-level value is not a list makes it
\* fail with the invalid-shape error, and neither produces a Report.
C5_UnreadableSourceFails ==
    /\ ~source.exists =>
          /\ pc \in {"start", "raised"}
          /\ pc = "raised" => error = "FileNotFoundError"
          /\ report = NoReport
    /\ (source.exists /\ source.top # "list") =>
          /\ pc \in {"start", "raised"}
          /\ pc = "raised" => error = "ValueError"
          /\ report = NoReport

C5_Witness ==
    /\ pc = "raised"
    /\ source.exists
    /\ source.top # "list"
    /\ error = "ValueError"

\* C6: the nodes of the built graph are the declared ids and the ids of the
\* prerequisites lists, and (P, C) is an edge exactly when a record with id C
\* lists P.
C6_GraphOfCatalog ==
    Built =>
        /\ NodeSet(graph) =
              real_ids \cup UNION {Range(cat_data[i].prerequisites) : i \in DOMAIN cat_data}
        /\ EdgeSet(graph) =
              UNION {{<<p, cat_data[i].id>> : p \in Range(cat_data[i].prerequisites)} :
                     i \in DOMAIN cat_data}

(***************************************************************************)
(* Properties of the structural checks.                                    *)
(***************************************************************************)
AllWellFormed == Listed /\ \A i \in DOMAIN Records : WellFormed(Records[i])

OutDegree(g, n) == Cardinality({e \in EdgeSet(g) : e[1] = n})
InDegree(g, n) == Cardinality({e \in EdgeSet(g) : e[2] = n})

Dangling == NodeSet(graph) \ real_ids
IsolatedCourses == {n \in real_ids : OutDegree(graph, n) = 0 /\ InDegree(graph, n) = 0}
BottleneckCourses ==
    {n \in real_ids : OutDegree(graph, n) >= Get(config, "min_bottleneck", DefaultMinBottleneck)}

HasIssue(code, n) ==
    \E i \in DOMAIN report.issues :
        report.issues[i].code = code /\ report.issues[i].courses = <<n>>

CycleReported(c) ==
    \E i \in DOMAIN report.issues :
        report.issues[i].code = "cycle" /\ Canon(report.issues[i].meta.cycle) = c

BasicDefectsReported ==
    /\ \A c \in ElementaryCycles(graph) : CycleReported(c)
    /\ \A n \in Dangling : HasIssue("missing_prereq", n)
    /\ \A n \in IsolatedCourses : HasIssue("isolated_course", n)

\* C4 as stated: a catalog of well-formed records is analysed without raising
\* and every cycle, dangling prerequisite id, isolated course, bottleneck and
\* long chain of it appears as an Issue of the Report.
C4_EveryDefectIsAnIssue ==
    AllWellFormed =>
        /\ pc # "raised"
        /\ pc = "done" =>
              /\ BasicDefectsReported
              /\ \A n \in BottleneckCourses : HasIssue("bottleneck", n)
              /\ LongestChain(graph) > LongChainThreshold => IssuesOf("long_chain") # <<>>

\* C4 as amended: a catalog of well-formed records is analysed without
\* raising and the analysis goes on to the Report; every cycle, dangling
\* prerequisite id and isolated course appears as an Issue; of the bottleneck
\* candidates the top_bottlenecks of highest out-degree appear; a chain of
\* more than 6 courses appears when the catalog has no cycle.
C4_DefectsAreIssues ==
    AllWellFormed =>
        /\ pc # "raised"
        /\ pc = "start" => load_catalog(source).error = "none"
        /\ pc = "loaded" => build_graph_from_catalog(source).error = "none"
        /\ pc = "done" =>
              /\ BasicDefectsReported
              /\ LET issued == {n \in NodeSet(graph) : HasIssue("bottleneck", n)}
                     top_k == Get(config, "top_bottlenecks", DefaultTopBottlenecks)
                 IN  /\ issued \subseteq BottleneckCourses
                     /\ Cardinality(issued) = Min(top_k, Cardinality(BottleneckCourses))
                     /\ \A n \in BottleneckCourses \ issued : \A m \in issued :
                            OutDegree(graph, n) <= OutDegree(graph, m)
              /\ (~HasCycle(graph) /\ LongestChain(graph) > LongChainThreshold)
                    => IssuesOf("long_chain") # <<>>

C4_Witness ==
    /\ pc = "done"
    /\ AllWellFormed
    /\ HasCycle(graph)
    /\ LongestChain(graph) > LongChainThreshold
    /\ IssuesOf("cycle") # <<>>
    /\ IssuesOf("long_chain") = <<>>

\* C7: check_cycles returns one cycle Issue for each elementary cycle of the
\* graph, self-loops included, with severity high and the nodes of the cycle
\* in sorted order as courses; it returns nothing exactly for acyclic graphs.
C7_OneIssuePerElementaryCycle ==
    Built =>
        LET issues == check_cycles(graph)
            cycles == ElementaryCycles(graph)
        IN  /\ Len(issues) = Cardinality(cycles)
            /\ \A c \in cycles : \E i \in DOMAIN issues : Canon(issues[i].meta.cycle) = c
            /\ \A i \in DOMAIN issues :
                  /\ issues[i].code = "cycle"
                  /\ issues[i].severity = "high"
                  /\ IsElementaryCycle(graph, issues[i].meta.cycle)
                  /\ Increasing(issues[i].courses)
                  /\ Len(issues[i].courses) = Len(issues[i].meta.cycle)
                  /\ Range(issues[i].courses) = Range(issues[i].meta.cycle)
            /\ issues = <<>> <=> ~HasCycle(graph)

C7_Witness ==
    /\ Built
    /\ \E i, j \in DOMAIN check_cycles(graph) :
          /\ Len(check_cycles(graph)[i].courses) = 1
          /\ Len(check_cycles(graph)[j].courses) >= 2
          /\ check_cycles(graph)[j].courses # check_cycles(graph)[j].meta.cycle

\* C8: for a graph with a cycle check_longest_chain returns no issue,
\* length 0, the empty path and blocked_by_cycles = true.
C8_CyclesBlockLongestChain ==
    (Built /\ HasCycle(graph)) =>
        check_longest_chain(graph) =
            [issues |-> <<>>, length |-> 0, path |-> <<>>, blocked |-> TRUE]

C8_Witness ==
    /\ pc = "done"
    /\ HasCycle(graph)
    /\ LongestChain(graph) > LongChainThreshold
    /\ report.metrics.longest_chain_blocked_by_cycles

LongestChainResult(r) ==
    /\ r.blocked = FALSE
    /\ r.length = Len(r.path)
    /\ IsPath(graph, r.path)
    /\ r.length <= Cardinality(NodeSet(graph))
    /\ r.length = LongestChain(graph)

\* C9 as stated: for an acyclic graph check_longest_chain returns
\* blocked_by_cycles = false and a directed path of the graph whose node
\* count is positive, at most the number of nodes, and the largest of any
\* directed path.
C9_LongestChainIsPositive ==
    (Built /\ ~HasCycle(graph)) =>
        /\ LongestChainResult(check_longest_chain(graph))
        /\ check_longest_chain(graph).length >= 1

\* C9 as amended: as stated, except that the node count is positive only
\* when the graph has a node; for the graph without nodes the path is
\* empty and the length 0.
C9_LongestChainOfDag ==
    (Built /\ ~HasCycle(graph)) =>
        /\ LongestChainResult(check_longest_chain(graph))
        /\ NodeSet(graph) # {} => check_longest_chain(graph).length >= 1
        /\ NodeSet(graph) = {} => check_longest_chain(graph).path = <<>>

C9_Witness ==
    /\ Built
    /\ ~HasCycle(graph)
    /\ check_longest_chain(graph).length >= 3
    /\ \E n \in NodeSet(graph) : InDegree(graph, n) >= 2

\* C10: on an acyclic graph the Report holds one long_chain Issue when the
\* node count of the longest path exceeds the configured long_chain_warn
\* (6 when the key is absent), and none otherwise.
C10_LongChainWarnIsConfigurable ==
    (pc = "done" /\ ~HasCycle(graph)) =>
        Len(IssuesOf("long_chain")) =
            IF report.metrics.longest_chain_len > Get(config, "long_chain_warn", LongChainThreshold)
            THEN 1 ELSE 0

(***************************************************************************)
(* C11: for every node of the graph that is not a declared id,             *)
(* check_missing_prereqs returns exactly one Issue about it: a             *)
(* missing_prereq of severity high with courses = [node], whose            *)
(* meta.referenced_by lists exactly the direct successors of the node; no  *)
(* Issue it returns implicates a declared id.                              *)
(***************************************************************************)
C11_OneMissingPrereqPerUndeclaredNode ==
    Built =>
        LET issues == check_missing_prereqs(graph, real_ids)
            About(n) == {i \in DOMAIN issues : n \in Range(issues[i].courses)}
        IN  /\ \A n \in Dangling :
                  /\ Cardinality(About(n)) = 1
                  /\ \A i \in About(n) :
                        /\ issues[i].code = "missing_prereq"
                        /\ issues[i].severity = "high"
                        /\ issues[i].courses = <<n>>
                        /\ Range(issues[i].meta.referenced_by) =
                              {e[2] : e \in {d \in EdgeSet(graph) : d[1] = n}}
                        /\ Injective(issues[i].meta.referenced_by)
            /\ \A n \in real_ids : About(n) = {}
            /\ Len(issues) = Cardinality(Dangling)

\* a report about a graph with two nodes that a declared course requires
\* and no record declares
C11_Witness ==
    /\ pc = "done"
    /\ Cardinality(Dangling) = 2
    /\ \A n \in Dangling : OutDegree(graph, n) = 1
    /\ real_ids # {}
    /\ Len(IssuesOf("missing_prereq")) = Cardinality(Dangling)

(***************************************************************************)
(* C12.  IssuesAbout(n) are the positions of the Issues of the Report that *)
(* implicate n.                                                            *)
(***************************************************************************)
IssuesAbout(n) == {i \in DOMAIN report.issues : n \in Range(report.issues[i].courses)}

IsolationReported ==
    /\ \A n \in IsolatedCourses :
          /\ Cardinality(IssuesAbout(n)) = 1
          /\ \A i \in IssuesAbout(n) :
                /\ report.issues[i].code = "isolated_course"
                /\ report.issues[i].courses = <<n>>
    /\ \A n \in real_ids \ IsolatedCourses :
          \A i \in IssuesAbout(n) : report.issues[i].code # "isolated_course"

\* C12 as stated: in every Report, whatever the configuration, a declared id
\* without any edge is the subject of exactly one isolated_course Issue and
\* of no other Issue, and a declared id with an edge has no isolated_course
\* Issue.
C12_IsolatedCourseHasOneIssue ==
    pc = "done" => IsolationReported

\* C12 as amended: the same, for the configurations whose min_bottleneck is
\* at least 1.
C12_IsolatedCourseBelowThreshold ==
    (pc = "done" /\ Get(config, "min_bottleneck", DefaultMinBottleneck) >= 1)
        => IsolationReported

\* a report, under a configured threshold of 2, about an isolated course
\* next to courses with edges
C12_Witness ==
    /\ pc = "done"
    /\ Get(config, "min_bottleneck", DefaultMinBottleneck) = 2
    /\ IsolatedCourses # {}
    /\ real_ids \ IsolatedCourses # {}
    /\ Len(IssuesOf("isolated_course")) = Cardinality(IsolatedCourses)

(***************************************************************************)
(* C13.  The bottleneck check is called with the configured top_k and      *)
(* min_out_degree, under every order in which the set of declared ids may  *)
(* be iterated.                                                            *)
(***************************************************************************)
TopK == Get(config, "top_bottlenecks", DefaultTopBottlenecks)
MinOutDegree == Get(config, "min_bottleneck", DefaultMinBottleneck)
SetOrders == IterationOrders(Relevant(graph, real_ids, config))

\* C13: check_bottlenecks emits bottleneck Issues only for declared ids of
\* out-degree at least min_out_degree, at most top_k of them, in
\* non-increasing order of out-degree, each with its out-degree in
\* meta.out_degree, and leaves out no candidate of strictly greater
\* out-degree than a candidate it emits.
C13_BottlenecksAreTheTopCandidates ==
    Built =>
        \A order \in SetOrders :
            LET issues == check_bottlenecks(graph, order, TopK, MinOutDegree).issues
                emitted == {issues[i].courses[1] : i \in DOMAIN issues}
            IN  /\ \A i \in DOMAIN issues :
                      /\ issues[i].code = "bottleneck"
                      /\ Len(issues[i].courses) = 1
                      /\ issues[i].courses[1] \in real_ids
                      /\ OutDegree(graph, issues[i].courses[1]) >= MinOutDegree
                      /\ issues[i].meta.out_degree = OutDegree(graph, issues[i].courses[1])
                /\ Len(issues) <= TopK
                /\ Cardinality(emitted) = Len(issues)
                /\ \A i, j \in DOMAIN issues :
                      i < j => issues[i].meta.out_degree >= issues[j].meta.out_degree
                /\ \A n \in BottleneckCourses \ emitted : \A m \in emitted :
                      OutDegree(graph, n) <= OutDegree(graph, m)

\* a graph with more candidates than top_k, of different out-degrees
C13_Witness ==
    /\ Built
    /\ Cardinality(BottleneckCourses) > TopK
    /\ \E n, m \in BottleneckCourses : OutDegree(graph, n) > OutDegree(graph, m)
    /\ \A order \in SetOrders :
          Len(check_bottlenecks(graph, order, TopK, MinOutDegree).issues) = TopK

(***************************************************************************)
(* C14.  The metric top_bottlenecks of a Report is a list of               *)
(* {id, out_degree} entries.                                               *)
(***************************************************************************)
TopBottlenecksMetric == report.metrics.top_bottlenecks

RankedCandidates(entries) ==
    /\ \A i \in DOMAIN entries :
          /\ entries[i].id \in BottleneckCourses
          /\ entries[i].out_degree = OutDegree(graph, entries[i].id)
    /\ \A i, j \in DOMAIN entries :
          /\ i < j => entries[i].out_degree >= entries[j].out_degree
          /\ entries[i].id = entries[j].id => i = j

\* C14 as stated: the metric top_bottlenecks is the ranked list of all the
\* candidates, not only of the top_k emitted as Issues.
C14_MetricListsAllCandidates ==
    pc = "done" =>
        /\ RankedCandidates(TopBottlenecksMetric)
        /\ {TopBottlenecksMetric[i].id : i \in DOMAIN TopBottlenecksMetric} = BottleneckCourses

\* C14 as amended: the metric top_bottlenecks is the ranked list of the
\* first top_k candidates only, which are the candidates emitted as
\* bottleneck Issues.
C14_MetricListsEmittedCandidates ==
    pc = "done" =>
        /\ RankedCandidates(TopBottlenecksMetric)
        /\ Len(TopBottlenecksMetric) = Min(TopK, Cardinality(BottleneckCourses))
        /\ {TopBottlenecksMetric[i].id : i \in DOMAIN TopBottlenecksMetric}
              = {n \in real_ids : HasIssue("bottleneck", n)}
        /\ \A n \in BottleneckCourses : \A i \in DOMAIN TopBottlenecksMetric :
              OutDegree(graph, n) > TopBottlenecksMetric[i].out_degree
                  => \E j \in DOMAIN TopBottlenecksMetric : TopBottlenecksMetric[j].id = n

\* a report about a graph with more candidates than top_k
C14_Witness ==
    /\ pc = "done"
    /\ Cardinality(BottleneckCourses) > TopK
    /\ Len(TopBottlenecksMetric) = TopK
    /\ TopK > 0

(***************************************************************************)
(* C15: a second run of the checks on the same graph, declared ids and     *)
(* configuration returns the issues list of the Report, in the same order, *)
(* whatever the order in which that run iterates the set of declared ids.  *)
(***************************************************************************)
C15_IssuesIndependentOfSetOrder ==
    pc = "done" =>
        \A order \in SetOrders :
            RunAllChecks(graph, real_ids, order, config).issues = report.issues

(***************************************************************************)
(* C16.  The key of the final sort, as the tuple the code builds, compared *)
(* as Python compares tuples.                                              *)
(***************************************************************************)
KeyTuple(issue) == <<SevRank(issue.severity), CodeRank(issue.code), FirstCourse(issue)>>

KeyLeq(a, b) ==
    \/ a[1] < b[1]
    \/ a[1] = b[1] /\ a[2] < b[2]
    \/ a[1] = b[1] /\ a[2] = b[2] /\ a[3] <= b[3]

Occurrences(s, x) == Cardinality({i \in DOMAIN s : s[i] = x})

SameElements(s, t) ==
    /\ Len(s) = Len(t)
    /\ \A x \in Range(s) \cup Range(t) : Occurrences(s, x) = Occurrences(t, x)

\* the issues the five checks return when the id set is iterated in `order`
ReturnedByChecks(order) ==
    check_cycles(graph) \o check_missing_prereqs(graph, real_ids)
        \o check_isolated(graph, order)
        \o check_bottlenecks(graph, order, TopK, MinOutDegree).issues
        \o check_longest_chain(graph).issues

\* C16: the issues list of a Report holds exactly the issues the five checks
\* returned, each as often as it was returned, in non-decreasing order of
\* the key (severity rank, code, first course id or the empty string).
C16_IssuesAreTheSortedFindings ==
    pc = "done" =>
        /\ \E order \in SetOrders : SameElements(report.issues, ReturnedByChecks(order))
        /\ \A i, j \in DOMAIN report.issues :
              i < j => KeyLeq(KeyTuple(report.issues[i]), KeyTuple(report.issues[j]))

\* a report with issues of the three severities, the checks having found
\* some of them in another order than the key order
C16_Witness ==
    /\ pc = "done"
    /\ {report.issues[i].severity : i \in DOMAIN report.issues} = {"high", "medium", "low"}
    /\ \A order \in SetOrders : ReturnedByChecks(order) # report.issues

(***************************************************************************)
(* C17: no two issues at different positions of the issues list of a       *)
(* Report have equal keys (severity, code, first course id).               *)
(***************************************************************************)
C17_KeysAreDistinct ==
    pc = "done" =>
        \A i, j \in DOMAIN report.issues :
            KeyTuple(report.issues[i]) = KeyTuple(report.issues[j]) => i = j

(***************************************************************************)
(* C18 to C20: the call get_prereq_chain(graph, topic).                    *)
(***************************************************************************)
RECURSIVE PrereqClosure(_, _)
PrereqClosure(g, S) ==
    LET more == S \cup {e[1] : e \in {d \in EdgeSet(g) : d[2] \in S}}
    IN  IF more = S THEN S ELSE PrereqClosure(g, more)

\* the nodes from which a path of at least one edge leads to n
TransitivePrereqs(g, n) ==
    PrereqClosure(g, {e[1] : e \in {d \in EdgeSet(g) : d[2] = n}})

Returned == pc = "returned" /\ topic \in NodeSet(graph)
ResultIds == ChainIds(result)

\* C18: for a target in the graph, cyclic or not, the returned list holds
\* the target and each of its transitive prerequisites exactly once and no
\* other node, and the target is its last element.
C18_ChainIsTheAncestorsThenTheTarget ==
    Returned =>
        /\ Range(ResultIds) = TransitivePrereqs(graph, topic) \cup {topic}
        /\ Injective(ResultIds)
        /\ ResultIds # <<>>
        /\ ResultIds[Len(ResultIds)] = topic

\* the chain of a target that lies on a cycle and has a prerequisite that
\* two courses of the chain require
C18_Witness ==
    /\ Returned
    /\ topic \in OnCycle(graph)
    /\ Len(result) = 3
    /\ \E n \in Range(ResultIds) \ {topic} : OutDegree(graph, n) = 2

\* C19: the call returns, on every graph, also one with cycles or
\* self-loops upstream of or through the target, and no node is expanded
\* (has its predecessors gone through) more than once.
C19_ChainTerminates ==
    /\ <>(pc = "returned")
    /\ [](Injective(expanded))

\* a returned call on a target with a self-loop that lies on a longer cycle
C19_Witness ==
    /\ Returned
    /\ <<topic, topic>> \in EdgeSet(graph)
    /\ \E n \in TransitivePrereqs(graph, topic) \ {topic} : topic \in TransitivePrereqs(graph, n)
    /\ Len(expanded) >= 2

\* C20: on an acyclic graph the returned list has, for every edge (P, C)
\* with both ends in it, P at an earlier position than C.
C20_PrerequisitesComeFirst ==
    (Returned /\ ~HasCycle(graph)) =>
        \A e \in EdgeSet(graph) : \A i, j \in DOMAIN ResultIds :
            (ResultIds[i] = e[1] /\ ResultIds[j] = e[2]) => i < j

\* the chain of three courses of an acyclic graph in which the target
\* requires the first course directly and through the second
C20_Witness ==
    /\ Returned
    /\ ~HasCycle(graph)
    /\ Len(result) = 3
    /\ Cardinality(EdgeSet(graph)) = 3

(***************************************************************************)
(* C21: get_prereq_chain called with a target that is not a node of the    *)
(* graph raises no error and returns the empty chain, without expanding    *)
(* any node.                                                               *)
(***************************************************************************)
C21_AbsentTargetGivesEmptyChain ==
    topic \notin NodeSet(graph) =>
        /\ pc \in {"called", "returned"}
        /\ error = "none"
        /\ expanded = <<>>
        /\ pc = "returned" => result = <<>>

\* the call has returned for a target outside a graph that has nodes and edges
C21_Witness ==
    /\ pc = "returned"
    /\ topic \notin NodeSet(graph)
    /\ EdgeSet(graph) # {}

(***************************************************************************)
(* C22: get_unlocked_courses returns exactly the nodes of the graph that   *)
(* are not in the completed collection and whose direct predecessors all   *)
(* are, each once; a node with a direct prerequisite that is not completed *)
(* is not returned, also when that prerequisite is returned; ids of the    *)
(* collection that are not nodes change nothing.                           *)
(***************************************************************************)
Completed == Range(completed_courses)
DirectPrereqs(g, n) == {e[1] : e \in {d \in EdgeSet(g) : d[2] = n}}

C22_UnlockedIsTheOneStepFrontier ==
    pc = "answered" =>
        /\ Range(unlocked) =
              {n \in NodeSet(graph) : n \notin Completed /\ DirectPrereqs(graph, n) \subseteq Completed}
        /\ Injective(unlocked)
        /\ \A n \in Range(unlocked) : DirectPrereqs(graph, n) \cap Range(unlocked) = {}
        /\ unlocked = get_unlocked_courses(graph,
                          SelectSeq(completed_courses, LAMBDA x : x \in NodeSet(graph)))

\* courses A, B requiring A, C requiring A and B, with A completed: B is
\* returned and C is not
C22_Witness ==
    /\ pc = "answered"
    /\ EdgeSet(graph) = {<<1, 2>>, <<1, 3>>, <<2, 3>>}
    /\ completed_courses = <<1>>
    /\ unlocked = <<2>>

(***************************************************************************)
(* C23: the declared ids and the graph of one invocation come from one     *)
(* snapshot of the source, also when the source is rewritten during the    *)
(* invocation.  The builder gives a name attribute to the node of every    *)
(* record and to no other node, so the ids declared by the snapshot the    *)
(* graph was built from are the nodes with a name.                         *)
(***************************************************************************)
C23_IdsAndGraphFromOneSnapshot ==
    Built => real_ids = DOMAIN graph.names

(***************************************************************************)
(* Properties of the service.                                              *)
(***************************************************************************)
\* C24: the analyze endpoint answers with the job it created, in status
\* queued; and whenever a job of the store is in status done, its report_id
\* is set and is the id of a report in the report directory, which
\* GET /reports/{report_id} returns
C24_DoneJobHasItsReport ==
    /\ response.request = "analyze" /\ response.code = 200
           => response.body.status = "queued"
    /\ \A job_id \in DOMAIN jobs :
           jobs[job_id].status = "done" =>
               /\ jobs[job_id].report_id # None
               /\ jobs[job_id].report_id \in reports

\* C25: an analyze request that names a catalog id without a stored catalog
\* is answered 404, creates no job and schedules no background task
C25_UnknownCatalogIsNotFound ==
    [][\A catalog_id \in CatalogUuids \cup {NonExistentId} :
          AnalyzeEndpoint(catalog_id) /\ catalog_id \notin DOMAIN catalogs
              => /\ response'.code = 404
                 /\ jobs' = jobs
                 /\ tasks' = tasks]_vars

C25_Witness ==
    /\ response = Response("analyze", 404, Detail("Catalog not found"))
    /\ catalogs # EmptyDict
    /\ jobs = EmptyDict
    /\ tasks = <<>>

\* the URLs C26 is about
OtherScheme(url) == url.scheme \notin {"http", "https"}
LocalHost(url) ==
    \/ url.hostname = HostName("localhost")
    \/ /\ url.hostname.literal \in {"ipv4", "ipv6"}
       /\ \/ is_loopback(url.hostname)
          \/ is_private(url.hostname)
          \/ is_link_local(url.hostname)

UnsafeUrls == {url \in Urls : OtherScheme(url) \/ LocalHost(url)}

\* C26: a URL ingest whose URL has a scheme other than http and https, or
\* whose host is localhost or a loopback, private or link-local IP literal,
\* is answered 422, fetches nothing and stores no catalog
C26_UnsafeUrlIsRejectedBeforeTheFetch ==
    [][\A url \in UnsafeUrls :
          (\E upstream \in Upstreams(url) : CreateCatalogUrl(url, upstream))
          => /\ response'.code = 422
             /\ fetched' = fetched
             /\ catalogs' = catalogs]_vars

C26_Witness ==
    /\ response = Response("create_catalog", 422, Detail("Invalid or unsafe URL"))
    /\ fetched # {}

\* C27: an upload that is not valid JSON, or valid JSON whose top-level
\* value is not a list, is answered 422 and stores no catalog; an upload
\* that is answered with a catalog id has its content stored under that id
C27_OnlyListsAreStored ==
    [][\A content \in Contents :
          CreateCatalogUpload(content)
          => IF ~content.valid \/ content.top # "list"
             THEN /\ response'.code = 422
                  /\ catalogs' = catalogs
             ELSE /\ response'.code = 200
                  /\ response'.body.catalog_id \in DOMAIN catalogs' \ DOMAIN catalogs
                  /\ catalogs'[response'.body.catalog_id] = stored_file(content)]_vars

C27_Witness ==
    /\ response = Response("create_catalog", 422, Detail("Invalid JSON file"))
    /\ catalogs = EmptyDict

\* the status changes a job may go through
JobStep(old, new) ==
    <<old, new>> \in {<<"queued", "running">>, <<"running", "done">>,
                      <<"running", "failed">>}

\* C28: the status of a job changes only from queued to running and from
\* running to done or failed, done and failed are final, and a job whose
\* background task has started eventually is done or failed, also when the
\* analysis raises
C28_JobsRunToTheirEnd ==
    /\ [][\A job_id \in DOMAIN jobs :
             /\ job_id \in DOMAIN jobs'
             /\ jobs'[job_id].status # jobs[job_id].status
                    => JobStep(jobs[job_id].status, jobs'[job_id].status)]_vars
    /\ \A t \in 1..MaxTasks :
           (t \in DOMAIN tasks /\ tasks[t].pc # "scheduled"
                /\ tasks[t].job_id \in DOMAIN jobs)
           ~> (t \in DOMAIN tasks /\ tasks[t].job_id \in DOMAIN jobs
                /\ jobs[tasks[t].job_id].status \in {"done", "failed"})

C28_Witness ==
    \E job_id \in DOMAIN jobs :
        /\ jobs[job_id].status = "failed"
        /\ jobs[job_id].error = "KeyError"

\* C29: the job id the dashboard hands to the background task and to the
\* status page is the id of a job of the job store, recorded for the
\* submitted catalog id
C29_DashboardJobIsInTheStore ==
    \A t \in DOMAIN tasks :
        /\ tasks[t].job_id \in DOMAIN jobs
        /\ jobs[tasks[t].job_id].catalog_id = tasks[t].catalog_id

(***************************************************************************)
(* C30: in every Report the graph has one node for every declared id and   *)
(* one for every missing prerequisite, every declared id is a node of the  *)
(* graph, and cycles were counted exactly when the longest chain is marked *)
(* as blocked by cycles.                                                   *)
(***************************************************************************)
C30_MetricsAreConsistent ==
    pc = "done" =>
        /\ report.metrics.total_nodes_in_graph =
               report.metrics.course_count + report.metrics.num_missing_prereqs
        /\ real_ids \subseteq NodeSet(graph)
        /\ report.metrics.num_cycles > 0
               <=> report.metrics.longest_chain_blocked_by_cycles

=============================================================================
